---- MODULE Spec2Model ----
(***************************************************************************)
(* ERPFTS Phase1 MVP: the sliding-window rate limiter, the cache layer and *)
(* the hybrid search service.                                              *)
(*                                                                         *)
(* Time is counted in ticks, Resolution ticks to the second, so that the   *)
(* int() truncation of retry_after is visible.  Every coroutine of the     *)
(* program runs on one asyncio event loop: a critical section guarded by   *)
(* asyncio.Lock contains no await, so the lock is free whenever a           *)
(* coroutine reaches "async with", acquire() returns without suspending,   *)
(* and the read of time.time() in front of it, the acquisition and the     *)
(* body form one step.                                                     *)
(***************************************************************************)
EXTENDS Integers, Sequences, FiniteSets, TLC

VARIABLES
    now,        \* time.time(), in ticks
    configs,    \* RateLimiter._configs: limit type -> [requests, window]
    windows,    \* RateLimiterBackend._windows: key -> deque of timestamps
    admitted,   \* history: per key, the timestamps of the accepted checks
    resetIdx,   \* history: per key, Len(admitted) at the last reset_key
    resets,     \* history: number of reset_key and configuration calls made
    rl_last,    \* the last rate limiter call and what it returned; for a check
                \* that directly follows a denial of its key, that denial's reset_time
    cache,      \* MemoryCacheBackend._cache: entries in insertion order
    history,    \* the SearchHistory rows written by _log_search
    calls,      \* number of search calls made
    last,       \* the last search call: its arguments, its steps, its outcome
    cset,       \* history: per key, the last set made on the cache backend
    fin,        \* the arguments of a _combine_results call
    fout        \* what that call returned

rlvars == <<now, configs, windows, admitted, resetIdx, resets, rl_last>>
svars == <<cache, history, calls, last, cset>>
fvars == <<fin, fout>>
vars == <<now, configs, windows, admitted, resetIdx, resets, rl_last,
          cache, history, calls, last, cset, fin, fout>>

(***************************************************************************)
(* Bounds of the model.                                                    *)
(***************************************************************************)
Resolution == 2
MaxRequests == 2
MaxResets == 1
Slack == 3

\* cleanup_expired(max_age=3600): the sweep's cut-off age, in seconds
max_age == 3600

Windows == {1, 2, max_age + 1}
\* the clock is followed for Slack ticks from time 0 and for Slack ticks after
\* one jump of max_age seconds
Jump == Resolution * max_age
MaxTime == Jump + Slack
Identifiers == {"u1"}
BuiltinLimits == {"search_per_user", "upload_per_user", "api_per_ip", "global_api"}
Keys == {<<"search_per_user", id>> : id \in Identifiers}

NoCall == [op |-> "none"]

(***************************************************************************)
(* RateLimiterBackend                                                      *)
(***************************************************************************)
\* a purge that drops nothing
DropNothing(w, cutoff) == w

RECURSIVE DropExpired(_, _)
\* while window and window[0] < cutoff: window.popleft()
DropExpired(w, cutoff) ==
    IF w # <<>> /\ Head(w) < cutoff THEN DropExpired(Tail(w), cutoff) ELSE w

\* self._windows[key] of a defaultdict(deque): a missing key reads as empty
WindowOf(k) == IF k \in DOMAIN windows THEN windows[k] ELSE <<>>

\* the deny test of is_allowed written with > : one request too many
LimitReachedOffByOne(current_count, requests) == current_count > requests

\* if current_count >= config.requests
LimitReached(current_count, requests) == current_count >= requests

\* the seconds left until the oldest request leaves the window, cut to a
\* whole number and not rounded up
RetryAfterTruncated(oldest_request, window, current_time) ==
    (oldest_request + window * Resolution - current_time) \div Resolution

\* retry_after = int(oldest_request + config.window - current_time) + 1
RetryAfter(oldest_request, window, current_time) ==
    ((oldest_request + window * Resolution - current_time) \div Resolution) + 1

\* is_allowed under the lock: purge, count, deny or append
is_allowed(w, config, current_time) ==
    LET window_start == current_time - config.window * Resolution
        purged == DropExpired(w, window_start)
        current_count == Len(purged)
    IN  IF LimitReached(current_count, config.requests)
        THEN [allowed |-> FALSE,
              window |-> purged,
              current_count |-> current_count,
              limit |-> config.requests,
              retry_after |->
                  IF purged # <<>>
                  THEN RetryAfter(Head(purged), config.window, current_time)
                  ELSE config.window,
              remaining |-> 0]
        ELSE [allowed |-> TRUE,
              window |-> Append(purged, current_time),
              current_count |-> current_count + 1,
              limit |-> config.requests,
              retry_after |-> 0,
              remaining |-> config.requests - current_count - 1]

\* what check_limit does to the limiter for a configured limit type
CheckLimitEffect(limit_type, identifier) ==
    LET k == <<limit_type, identifier>>
        r == is_allowed(WindowOf(k), configs[limit_type], now)
    IN  /\ windows' = (k :> r.window) @@ windows
        /\ admitted' = IF r.allowed
                       THEN [admitted EXCEPT ![k] = Append(@, now)]
                       ELSE admitted
        /\ rl_last' = [op |-> "check_limit", key |-> k, time |-> now,
                       allowed |-> r.allowed,
                       current_count |-> r.current_count,
                       retry_after |-> r.retry_after,
                       remaining |-> r.remaining,
                       reset_time |-> IF r.allowed
                                      THEN now + configs[limit_type].window * Resolution
                                      ELSE now + r.retry_after * Resolution,
                       follows |-> IF /\ rl_last.op = "check_limit"
                                      /\ rl_last.key = k
                                      /\ ~rl_last.allowed
                                   THEN {rl_last.reset_time}
                                   ELSE {}]

\* return False, {}: a limit type without a configuration is turned away
FailClosed == FALSE

\* return True, {}: a limit type without a configuration is let through
FailOpen == TRUE

\* RateLimiter.check_limit without config_override: a limit type that has no
\* configuration returns before the backend is called
CheckLimit(limit_type, identifier) ==
    /\ IF limit_type \in DOMAIN configs
       THEN CheckLimitEffect(limit_type, identifier)
       ELSE /\ rl_last' = [op |-> "check_limit",
                            key |-> <<limit_type, identifier>>, time |-> now,
                            allowed |-> FailOpen, info |-> "empty"]
            /\ UNCHANGED <<windows, admitted>>
    /\ UNCHANGED <<now, configs, resetIdx, resets, svars, fvars>>

\* RateLimiterBackend.get_current_usage, as RateLimiter.get_usage_stats calls it
GetCurrentUsage(limit_type, identifier) ==
    /\ limit_type \in DOMAIN configs
    /\ LET k == <<limit_type, identifier>>
           purged == DropExpired(WindowOf(k),
                                 now - configs[limit_type].window * Resolution)
       IN  /\ windows' = (k :> purged) @@ windows
           /\ rl_last' = [op |-> "get_current_usage", key |-> k, time |-> now,
                          current_usage |-> Len(purged)]
    /\ UNCHANGED <<now, configs, admitted, resetIdx, resets, svars, fvars>>

\* RateLimiterBackend.reset_key
ResetKey(k) ==
    /\ resets < MaxResets
    /\ resets' = resets + 1
    /\ IF k \in DOMAIN windows
       THEN /\ windows' = [windows EXCEPT ![k] = <<>>]
            /\ rl_last' = [op |-> "reset_key", key |-> k, time |-> now, result |-> TRUE]
       ELSE /\ windows' = windows
            /\ rl_last' = [op |-> "reset_key", key |-> k, time |-> now, result |-> FALSE]
    /\ resetIdx' = [resetIdx EXCEPT ![k] = Len(admitted[k])]
    /\ UNCHANGED <<now, configs, admitted, svars, fvars>>

\* RateLimiterBackend.cleanup_expired, as cleanup_worker calls it
CleanupExpired ==
    LET cutoff_time == now - max_age * Resolution
        swept == [k \in DOMAIN windows |-> DropExpired(windows[k], cutoff_time)]
        keys_to_remove == {k \in DOMAIN windows : swept[k] = <<>>}
    IN  /\ windows' = [k \in DOMAIN windows \ keys_to_remove |-> swept[k]]
        /\ rl_last' = [op |-> "cleanup_expired", time |-> now,
                       removed |-> Cardinality(keys_to_remove)]
        /\ UNCHANGED <<now, configs, admitted, resetIdx, resets, svars, fvars>>

\* the clock moves on between two calls
Advance ==
    \E d \in {1, Jump} :
        /\ now + d <= MaxTime
        /\ (now + d) % Jump <= Slack
        /\ now' = now + d
        /\ UNCHANGED <<configs, windows, admitted, resetIdx, resets, rl_last, svars, fvars>>

(***************************************************************************)
(* SearchService: highlight merging and fusion.  A score s stands for      *)
(* s / ScoreScale, so that a keyword score over one, two or three keywords *)
(* is a whole number; a combined score c stands for c / (10 * ScoreScale), *)
(* the weights 0.7 and 0.3 being 7 and 3 tenths.  A chunk id is the rank   *)
(* of the id string in string order.                                       *)
(***************************************************************************)
ScoreScale == 2 * 3
FusionScores == {0, ScoreScale \div 2, ScoreScale}
MaxChunks == 3
MaxTopK == 2

SemanticWeight == 7
\* the keyword path weighted like the semantic path
KeywordWeightAsSemantic == SemanticWeight
KeywordWeight == 3

ChunkIds == 1..MaxChunks

\* tuple order of (start, end) pairs
PosLess(a, b) == a[1] < b[1] \/ (a[1] = b[1] /\ a[2] < b[2])

RECURSIVE InsertPos(_, _)
InsertPos(sorted, p) ==
    IF sorted = <<>> THEN <<p>>
    ELSE IF PosLess(p, Head(sorted)) THEN <<p>> \o sorted
    ELSE <<Head(sorted)>> \o InsertPos(Tail(sorted), p)

RECURSIVE SortPositions(_)
\* positions.sort()
SortPositions(ps) ==
    IF ps = <<>> THEN <<>>
    ELSE InsertPos(SortPositions(SubSeq(ps, 1, Len(ps) - 1)), ps[Len(ps)])

\* the end of the later span, whatever the end of the earlier one
EndOfLater(a, b) == b

\* max(merged[-1][1], end)
Max2(a, b) == IF a >= b THEN a ELSE b

RECURSIVE MergeSorted(_, _)
\* the loop of _merge_positions: a span starting at or before the end of the
\* last merged span extends it
MergeSorted(merged, rest) ==
    IF rest = <<>> THEN merged
    ELSE LET p == Head(rest)
             m == merged[Len(merged)]
         IN  IF p[1] <= m[2]
             THEN MergeSorted([merged EXCEPT ![Len(merged)] = <<m[1], Max2(m[2], p[2])>>],
                              Tail(rest))
             ELSE MergeSorted(Append(merged, p), Tail(rest))

_merge_positions(positions) ==
    IF positions = <<>> THEN <<>>
    ELSE LET sorted == SortPositions(positions)
         IN  MergeSorted(<<Head(sorted)>>, Tail(sorted))

\* a map in which no chunk id is ever found
KeyIndexAbsent(result_map, chunk_id) == 0

\* position of chunk_id among the keys of result_map, 0 when it is no key
KeyIndex(result_map, chunk_id) ==
    LET hits == {i \in 1..Len(result_map) : result_map[i].chunk_id = chunk_id}
    IN  IF hits = {} THEN 0 ELSE CHOOSE i \in hits : TRUE

RECURSIVE AddSemantic(_, _)
\* for result in semantic_results: combined_score = similarity_score * 0.7;
\* result_map[result.chunk_id] = result
AddSemantic(result_map, results) ==
    IF results = <<>> THEN result_map
    ELSE LET r == [Head(results) EXCEPT
                      !.combined_score = Head(results).similarity_score * SemanticWeight]
             i == KeyIndex(result_map, r.chunk_id)
         IN  AddSemantic(IF i = 0 THEN Append(result_map, r)
                         ELSE [result_map EXCEPT ![i] = r],
                         Tail(results))

RECURSIVE AddKeyword(_, _)
\* for result in keyword_results: add 0.3 * score to a chunk already in the
\* map and make it hybrid, else insert it with 0.3 * score
AddKeyword(result_map, results) ==
    IF results = <<>> THEN result_map
    ELSE LET r == Head(results)
             i == KeyIndex(result_map, r.chunk_id)
         IN  AddKeyword(
                 IF i # 0
                 THEN [result_map EXCEPT ![i] =
                          [@ EXCEPT
                              !.combined_score = @ + r.similarity_score * KeywordWeight,
                              !.search_type = "hybrid",
                              !.highlight_positions =
                                  IF r.highlight_positions # <<>>
                                  THEN _merge_positions(@ \o r.highlight_positions)
                                  ELSE @]]
                 ELSE Append(result_map,
                             [r EXCEPT !.combined_score =
                                           r.similarity_score * KeywordWeight]),
                 Tail(results))

\* list.sort(key=combined_score, reverse=True) is stable: x goes behind every
\* element whose score is at least its own
RECURSIVE InsertByScore(_, _)
InsertByScore(sorted, x) ==
    IF sorted = <<>> THEN <<x>>
    ELSE IF Head(sorted).combined_score >= x.combined_score
         THEN <<Head(sorted)>> \o InsertByScore(Tail(sorted), x)
         ELSE <<x>> \o sorted

RECURSIVE SortByScore(_)
SortByScore(rs) ==
    IF rs = <<>> THEN <<>>
    ELSE InsertByScore(SortByScore(SubSeq(rs, 1, Len(rs) - 1)), rs[Len(rs)])

\* seq[:n]
Take(seq, n) == SubSeq(seq, 1, IF n < Len(seq) THEN n ELSE Len(seq))

_combine_results(semantic_results, keyword_results, top_k) ==
    Take(SortByScore(AddKeyword(AddSemantic(<<>>, semantic_results), keyword_results)),
         top_k)

\* a SearchResult as a retrieval path builds it
Result(id, score, type, hl) ==
    [chunk_id |-> id, similarity_score |-> score, search_type |-> type,
     highlight_positions |-> hl, combined_score |-> -1]

\* lists of at most two results of one path, no chunk twice
ResultLists(type, highlights) ==
    LET One == {Result(id, sc, type, hl) :
                    id \in ChunkIds, sc \in FusionScores, hl \in highlights}
    IN  {<<>>} \cup {<<a>> : a \in One}
        \cup {p \in One \X One : p[1].chunk_id # p[2].chunk_id}

(***************************************************************************)
(* Text: a string is a sequence of characters.  " " is white space, "#"    *)
(* a character clean_text removes, the letters are word characters.        *)
(***************************************************************************)
IsSpace(c) == c = " "
IsSpecial(c) == c = "#"

RECURSIVE LStrip(_)
LStrip(t) == IF t # <<>> /\ IsSpace(Head(t)) THEN LStrip(Tail(t)) ELSE t

RECURSIVE RStrip(_)
RStrip(t) ==
    IF t # <<>> /\ IsSpace(t[Len(t)]) THEN RStrip(SubSeq(t, 1, Len(t) - 1)) ELSE t

\* str.strip()
Strip(t) == RStrip(LStrip(t))

RECURSIVE CollapseSpaces(_)
\* re.sub(r'\s+', ' ', text)
CollapseSpaces(t) ==
    IF t = <<>> THEN <<>>
    ELSE IF IsSpace(Head(t))
         THEN <<" ">> \o CollapseSpaces(LStrip(t))
         ELSE <<Head(t)>> \o CollapseSpaces(Tail(t))

RECURSIVE RemoveSpecial(_)
\* re.sub(r'[^\w\s\.\,\!\?\;\:\-\(\)\[\]\"\'\n]', '', text)
RemoveSpecial(t) ==
    IF t = <<>> THEN <<>>
    ELSE IF IsSpecial(Head(t)) THEN RemoveSpecial(Tail(t))
         ELSE <<Head(t)>> \o RemoveSpecial(Tail(t))

\* clean_text: strip and collapse white space, drop the special characters,
\* strip the one line that is left
clean_text(text) ==
    IF text = <<>> THEN <<>>
    ELSE Strip(RemoveSpecial(CollapseSpaces(Strip(text))))

\* str.lower()
LowerChar(c) == IF c = "A" THEN "a" ELSE IF c = "B" THEN "b" ELSE c
Lower(t) == [i \in 1..Len(t) |-> LowerChar(t[i])]

RECURSIVE Split(_)
\* str.split(): the maximal runs of characters that are not white space
Split(t) ==
    LET u == LStrip(t)
        ends == {i \in 1..Len(u) : IsSpace(u[i])}
        stop == IF ends = {} THEN Len(u) + 1
                ELSE CHOOSE i \in ends : \A j \in ends : i <= j
    IN  IF u = <<>> THEN <<>>
        ELSE <<SubSeq(u, 1, stop - 1)>> \o Split(SubSeq(u, stop, Len(u)))

\* the 0-based offsets at which keyword occurs in content
Occurrences(content, keyword) ==
    {pos \in 0..(Len(content) - Len(keyword)) :
        SubSeq(content, pos + 1, pos + Len(keyword)) = keyword}

\* keyword in content
Contains(content, keyword) == Occurrences(content, keyword) # {}

(***************************************************************************)
(* MemoryCacheBackend and CacheManager.  The cache is the dict in          *)
(* insertion order; expires_at = -1 is None.                               *)
(***************************************************************************)
cache_max_size == 2
cache_search_ttl == 1

NoExpiry == -1
\* ttl: Optional[int] = None
NoTtl == -1

EntryIndex(c, key) ==
    LET hits == {i \in 1..Len(c) : c[i].key = key}
    IN  IF hits = {} THEN 0 ELSE CHOOSE i \in hits : TRUE

RemoveAt(c, i) == SubSeq(c, 1, i - 1) \o SubSeq(c, i + 1, Len(c))

\* an entry that never expires
NeverExpired(entry, t) == FALSE

\* the entry is past its expiry: datetime.now() > entry["expires_at"]
Expired(entry, t) == entry.expires_at # NoExpiry /\ t > entry.expires_at

\* a get that finds nothing
CacheGetMiss(c, key, t) == [found |-> FALSE, cache |-> c]

\* MemoryCacheBackend.get: the value, or None, and the cache it leaves
CacheGet(c, key, t) ==
    LET i == EntryIndex(c, key)
    IN  IF i = 0 THEN [found |-> FALSE, cache |-> c]
        ELSE IF Expired(c[i], t) THEN [found |-> FALSE, cache |-> RemoveAt(c, i)]
        ELSE [found |-> TRUE, value |-> c[i].value, cache |-> c]

\* an eviction that drops the entry inserted last
EvictNewest(c) == SubSeq(c, 1, Len(c) - 1)

\* oldest_key = next(iter(self._cache)); del self._cache[oldest_key]
EvictOldest(c) == Tail(c)

\* MemoryCacheBackend.set: evict the oldest entry of a full cache, then
\* assign self._cache[key]
CacheSet(c, key, value, ttl, t) ==
    LET kept == IF Len(c) >= cache_max_size /\ c # <<>> THEN EvictOldest(c) ELSE c
        entry == [key |-> key, value |-> value, created_at |-> t,
                  expires_at |-> IF ttl # NoTtl /\ ttl # 0
                                 THEN t + ttl * Resolution ELSE NoExpiry]
        i == EntryIndex(kept, key)
    IN  IF i = 0 THEN Append(kept, entry) ELSE [kept EXCEPT ![i] = entry]

\* filter keys are strings; a key is ranked by its place in FilterKeyOrder
FilterKeyOrder == <<"document_id", "language">>
KeyRank(k) == CHOOSE i \in 1..Len(FilterKeyOrder) : FilterKeyOrder[i] = k
\* MemoryCacheBackend.delete
CacheDelete(c, key) ==
    LET i == EntryIndex(c, key)
    IN  IF i = 0 THEN [deleted |-> FALSE, cache |-> c]
        ELSE [deleted |-> TRUE, cache |-> RemoveAt(c, i)]

\* pattern.replace("*", "")
WithoutStars(pattern) == SelectSeq(pattern, LAMBDA ch : ch # "*")

\* MemoryCacheBackend.clear: everything for "*", else the keys that contain
\* the pattern without its stars
CacheClear(c, pattern) ==
    LET kept == IF pattern = <<"*">> THEN <<>>
                ELSE SelectSeq(c, LAMBDA e : ~Contains(e.key, WithoutStars(pattern)))
    IN  [count |-> Len(c) - Len(kept), cache |-> kept]

RECURSIVE InsertPair(_, _)
InsertPair(sorted, p) ==
    IF sorted = <<>> THEN <<p>>
    ELSE IF KeyRank(p[1]) < KeyRank(Head(sorted)[1]) THEN <<p>> \o sorted
    ELSE <<Head(sorted)>> \o InsertPair(Tail(sorted), p)

\* the items in the order the caller's dict gives them
UnsortedItems(filters) == filters

RECURSIVE SortedItems(_)
\* sorted(filters.items())
SortedItems(filters) ==
    IF filters = <<>> THEN <<>>
    ELSE InsertPair(SortedItems(Tail(filters)), Head(filters))

\* _generate_cache_key: md5 of the query, and of the sorted filter items when
\* there are filters (a digest stands for what it digests)
_generate_cache_key(query, filters) ==
    IF filters # <<>> THEN <<query, SortedItems(filters)>> ELSE <<query>>

\* CacheManager._make_key("search", ...)
SearchCacheKey(cache_key) == <<"erpfts", "search">> \o cache_key

(***************************************************************************)
(* The chunk store, the embedding provider and the two retrieval paths.    *)
(***************************************************************************)
search_top_k == 10
search_similarity_threshold == 7

NoUser == "none"
NoValue == -1

\* the KnowledgeChunk rows, in table order
Chunks == <<
    [id |-> 1, document_id |-> "d1", language |-> "en", content |-> <<"a", " ", "b">>],
    [id |-> 2, document_id |-> "d1", language |-> "en", content |-> <<"A">>],
    [id |-> 3, document_id |-> "d2", language |-> "ja", content |-> <<"b", "a">>] >>

FilterKeys(filters) == {filters[i][1] : i \in 1..Len(filters)}
FilterValue(filters, k) ==
    LET i == CHOOSE j \in 1..Len(filters) : filters[j][1] = k IN filters[i][2]

\* the document_id and language filters of _keyword_search
RowMatchesFilters(chunk, filters) ==
    /\ "document_id" \in FilterKeys(filters) =>
           chunk.document_id = FilterValue(filters, "document_id")
    /\ "language" \in FilterKeys(filters) =>
           chunk.language = FilterValue(filters, "language")

\* seq filtered by a test, order kept
RECURSIVE SelectRows(_, _, _)
SelectRows(rows, keywords, filters) ==
    IF rows = <<>> THEN <<>>
    ELSE LET c == Head(rows)
             hit == /\ \/ keywords = <<>>
                       \/ \E i \in 1..Len(keywords) :
                              Contains(Lower(c.content), keywords[i])
                    /\ RowMatchesFilters(c, filters)
         IN  (IF hit THEN <<c>> ELSE <<>>) \o SelectRows(Tail(rows), keywords, filters)

\* the spans of the occurrences of one keyword, in ascending offset
RECURSIVE SpansFrom(_, _, _)
SpansFrom(content, keyword, start_pos) ==
    LET later == {pos \in Occurrences(content, keyword) : pos >= start_pos}
        pos == CHOOSE x \in later : \A y \in later : x <= y
    IN  IF later = {} THEN <<>>
        ELSE <<<<pos, pos + Len(keyword)>>>> \o SpansFrom(content, keyword, pos + 1)

RECURSIVE AllSpans(_, _)
AllSpans(content, keywords) ==
    IF keywords = <<>> THEN <<>>
    ELSE SpansFrom(content, Head(keywords), 0) \o AllSpans(content, Tail(keywords))

RECURSIVE MergeLoop(_, _)
\* the loop of _find_keyword_positions, which starts from merged = []
MergeLoop(merged, rest) ==
    IF rest = <<>> THEN merged
    ELSE LET p == Head(rest)
         IN  IF merged # <<>> /\ p[1] <= merged[Len(merged)][2]
             THEN MergeLoop([merged EXCEPT ![Len(merged)] =
                                <<@[1], Max2(@[2], p[2])>>], Tail(rest))
             ELSE MergeLoop(Append(merged, p), Tail(rest))

\* positions.sort() and the merge loop that end _find_keyword_positions
SortAndMerge(positions) == MergeLoop(<<>>, SortPositions(positions))

\* _find_keyword_positions: every occurrence of every keyword, sorted and merged
_find_keyword_positions(content, keywords) ==
    SortAndMerge(AllSpans(Lower(content), keywords))

\* sum(1 for keyword in keywords if keyword in content_lower)
Matches(content, keywords) ==
    Cardinality({i \in 1..Len(keywords) : Contains(Lower(content), keywords[i])})

\* matches / len(keywords)
KeywordScore(content, keywords) ==
    IF keywords = <<>> THEN 0
    ELSE (Matches(content, keywords) * ScoreScale) \div Len(keywords)

\* _keyword_search with a chunk store that answers
_keyword_search(query, top_k, filters) ==
    LET keywords == Split(Lower(query))
        rows == Take(SelectRows(Chunks, keywords, filters), top_k)
    IN  [i \in 1..Len(rows) |->
            [chunk_id |-> rows[i].id,
             document_id |-> rows[i].document_id,
             similarity_score |-> KeywordScore(rows[i].content, keywords),
             search_type |-> "keyword",
             highlight_positions |-> _find_keyword_positions(rows[i].content, keywords),
             metadata |-> {"document_filename", "language", "token_count"},
             combined_score |-> NoValue]]

\* similarity >= threshold, the similarity in ScoreScale-ths, the threshold in tenths
AtLeastThreshold(similarity, threshold) == similarity * 10 >= threshold * ScoreScale

RECURSIVE SelectNeighbours(_, _, _)
\* collection.query(where=filters) and the threshold test of search_similar
SelectNeighbours(neighbours, threshold, filters) ==
    IF neighbours = <<>> THEN <<>>
    ELSE LET n == Head(neighbours)
             keep == /\ \A i \in 1..Len(filters) :
                           \/ filters[i][1] \notin {"document_id", "language"}
                           \/ RowMatchesFilters(Chunks[n.id], filters)
                     /\ AtLeastThreshold(n.similarity, threshold)
         IN  (IF keep THEN <<n>> ELSE <<>>)
                 \o SelectNeighbours(Tail(neighbours), threshold, filters)

\* _semantic_search with an embedding provider that answers `neighbours`
_semantic_search(neighbours, top_k, threshold, filters) ==
    LET similar == SelectNeighbours(Take(neighbours, top_k * 2), threshold, filters)
    IN  [i \in 1..Len(similar) |->
            [chunk_id |-> similar[i].id,
             document_id |-> Chunks[similar[i].id].document_id,
             similarity_score |-> similar[i].similarity,
             search_type |-> "semantic",
             highlight_positions |-> <<>>,
             metadata |-> {"document_id", "chunk_index"},
             combined_score |-> NoValue]]

EnrichedKeys == {"document_filename", "document_created_at",
                 "document_language", "document_source"}

\* _enrich_results with a document store that answers
_enrich_results(results) ==
    [i \in 1..Len(results) |->
        [results[i] EXCEPT !.metadata = @ \cup EnrichedKeys]]

\* the type read off the fused list alone
TypeOfCombined(semantic_results, keyword_results, combined_results) ==
    IF combined_results = <<>> THEN "no_results" ELSE "hybrid"

\* the type when a list fed by one path only is not told apart
TypeWithoutSinglePath(semantic_results, keyword_results, combined_results) ==
    IF combined_results = <<>> THEN "no_results"
    ELSE IF semantic_results # <<>> /\ keyword_results # <<>> THEN "hybrid"
    ELSE "unknown"

_determine_search_type(semantic_results, keyword_results, combined_results) ==
    IF combined_results = <<>> THEN "no_results"
    ELSE IF semantic_results = <<>> /\ keyword_results # <<>> THEN "keyword_only"
    ELSE IF semantic_results # <<>> /\ keyword_results = <<>> THEN "semantic_only"
    ELSE IF semantic_results # <<>> /\ keyword_results # <<>> THEN "hybrid"
    ELSE "unknown"

(***************************************************************************)
(* The rate limiter on its own.                                            *)
(***************************************************************************)
NoFusion == [op |-> "none"]

\* RateLimiter.__init__ and _setup_default_configs: the four built-in limits,
\* their (requests, window) read from the settings
InitRL ==
    /\ now = 0
    /\ \E n \in 0..MaxRequests, w \in Windows :
           configs = [t \in BuiltinLimits |-> [requests |-> n, window |-> w]]
    /\ windows = <<>>
    /\ admitted = [k \in Keys |-> <<>>]
    /\ resetIdx = [k \in Keys |-> 0]
    /\ resets = 0
    /\ rl_last = NoCall
    /\ cache = <<>>
    /\ history = <<>>
    /\ cset = <<>>
    /\ calls = 0
    /\ last = NoCall
    /\ fin = NoFusion
    /\ fout = <<>>

CheckSearchLimit == \E id \in Identifiers : CheckLimit("search_per_user", id)
UsageStats == \E id \in Identifiers : GetCurrentUsage("search_per_user", id)
ResetUserLimits == \E k \in Keys : ResetKey(k)

\* one key's checks at non-decreasing times
NextSeq == CheckSearchLimit \/ Advance
SpecSeq == InitRL /\ [][NextSeq]_vars

\* checks, usage reads, resets and the sweep in any order
NextRL == CheckSearchLimit \/ UsageStats \/ ResetUserLimits \/ CleanupExpired \/ Advance
SpecRL == InitRL /\ [][NextRL]_vars

Requests == configs["search_per_user"].requests
WindowTicks == configs["search_per_user"].window * Resolution

\* the accepted checks of key k after the first `from`, counted in every
\* closed interval of one window length that ends at one of them
AdmittedWithin(k, from) ==
    \A i \in (from + 1)..Len(admitted[k]) :
        Cardinality({j \in (from + 1)..Len(admitted[k]) :
                        /\ admitted[k][i] - WindowTicks <= admitted[k][j]
                        /\ admitted[k][j] <= admitted[k][i]}) <= Requests

\* C1: under a fixed (requests, window), after any sequence of is_allowed
\* calls at non-decreasing times a key's stored window never holds more than
\* `requests` timestamps, and no closed interval [t - window, t] holds more
\* than `requests` accepted checks (an interval holding the most accepted
\* checks can be shifted to end at an accepted check).
C1_WindowNeverExceedsLimit ==
    /\ \A k \in DOMAIN windows : Len(windows[k]) <= Requests
    /\ \A k \in Keys : AdmittedWithin(k, 0)

\* a key that was denied with a full window and has by now been accepted
\* more often than the limit: its window has slid
C1_Witness ==
    /\ Requests >= 1
    /\ rl_last.op = "check_limit"
    /\ ~rl_last.allowed
    /\ Len(admitted[rl_last.key]) > Requests

\* C2 as stated: with usage reads, resets and the sweep interleaved, no
\* closed interval of one window length holds more than `requests` accepted
\* checks of a key.
C2_NeverMoreThanLimitInAnyWindow == \A k \in Keys : AdmittedWithin(k, 0)

\* C15: for a limit of N >= 1 per window, a check of a key with fewer than N
\* accepted checks is allowed; a check made while the N most recent accepted
\* checks all lie within the last window is denied with retry_after > 0 and
\* is not recorded; a check made more than a window after the most recent
\* accepted check is allowed, whatever was denied in between.
C15_WindowFillsThenSlides ==
    [][now' = now /\ Requests >= 1 =>
          LET k == rl_last'.key
              acc == admitted[k]
          IN  /\ rl_last'.op = "check_limit"
              /\ Len(acc) < Requests => rl_last'.allowed
              /\ (Len(acc) >= Requests
                  /\ now - acc[Len(acc) - Requests + 1] <= WindowTicks)
                 => /\ ~rl_last'.allowed
                    /\ rl_last'.retry_after > 0
                    /\ admitted' = admitted
                    /\ Len(windows'[k]) = Requests
              /\ (acc # <<>> /\ now - acc[Len(acc)] > WindowTicks)
                 => /\ rl_last'.allowed
                    /\ windows'[k] = <<now>>
              /\ rl_last'.allowed => admitted'[k] = Append(acc, now)]_vars

\* a key that used up its limit and is accepted again, more than a window
\* after its previous accepted check
C15_Witness ==
    /\ Requests >= 1
    /\ rl_last.op = "check_limit"
    /\ rl_last.allowed
    /\ rl_last.current_count = 1
    /\ Len(admitted[rl_last.key]) > Requests
    /\ LET acc == admitted[rl_last.key]
       IN  acc[Len(acc)] - acc[Len(acc) - 1] > WindowTicks

(***************************************************************************)
(* SearchService.search.  One call is one step: the awaits inside it reach *)
(* the in-process limiter and cache, which do not suspend, and the         *)
(* external collaborators, whose answer is the environment of the call.    *)
(***************************************************************************)
MaxCalls == 2

Queries == {<<>>, <<" ">>, <<"a">>, <<" ", "a", "#">>, <<"a", " ", "b">>}
Users == {NoUser} \cup Identifiers
TopKs == {NoValue} \cup 1..MaxTopK
Thresholds == {NoValue, 0, 3}
FilterSets == {<<>>,
               <<<<"document_id", "d1">>, <<"language", "en">>>>,
               <<<<"language", "en">>, <<"document_id", "d1">>>>}
NeighbourLists == {<<>>,
                   <<[id |-> 1, similarity |-> 6]>>,
                   <<[id |-> 3, similarity |-> 5], [id |-> 1, similarity |-> 5]>>,
                   <<[id |-> 2, similarity |-> 6], [id |-> 3, similarity |-> 3],
                     [id |-> 1, similarity |-> 5]>>}

\* what the collaborators do during one call: the provider's neighbours, and
\* which of the embedding provider, the chunk store, the history commit and
\* the document query raise
Envs == [neighbours : NeighbourLists, semantic_fails : BOOLEAN,
         keyword_fails : BOOLEAN, log_fails : BOOLEAN, enrich_fails : BOOLEAN]
QuietEnvs == {e \in Envs : ~e.semantic_fails /\ ~e.keyword_fails
                           /\ ~e.log_fails /\ ~e.enrich_fails}

NoResponse == [none |-> TRUE]

\* top_k = top_k or settings.search_top_k
EffectiveTopK(top_k) == IF top_k = NoValue \/ top_k = 0 THEN search_top_k ELSE top_k

\* threshold = threshold or settings.search_similarity_threshold
EffectiveThreshold(threshold) ==
    IF threshold = NoValue \/ threshold = 0 THEN search_similarity_threshold
    ELSE threshold

\* an enrichment whose failure loses the results
EnrichFailedEmpty(results) == <<>>

\* _enrich_results when the document query raises: except ...: return results
EnrichFailed(results) == results

\* the response of a call that missed the cache, under environment env
ComputeResponse(cleaned_query, top_k, threshold, filters, include_metadata, env) ==
    LET semantic_results ==
            IF env.semantic_fails THEN <<>>
            ELSE _semantic_search(env.neighbours, top_k, threshold, filters)
        keyword_results ==
            IF env.keyword_fails THEN <<>>
            ELSE _keyword_search(cleaned_query, top_k, filters)
        combined_results == _combine_results(semantic_results, keyword_results, top_k)
        enriched == IF ~include_metadata THEN combined_results
                    ELSE IF env.enrich_fails THEN EnrichFailed(combined_results)
                    ELSE _enrich_results(combined_results)
    IN  [results |-> Take(enriched, top_k),
         total_results |-> Len(enriched),
         search_type |-> _determine_search_type(semantic_results, keyword_results,
                                                enriched),
         semantic_n |-> Len(semantic_results),
         keyword_n |-> Len(keyword_results),
         fused_n |-> Len(AddKeyword(AddSemantic(<<>>, semantic_results),
                                    keyword_results))]

\* ComputeResponse tabulated over the arguments the calls below can give it
Computed ==
    [x \in ({clean_text(q) : q \in Queries} \ {<<>>})
            \X {EffectiveTopK(k) : k \in TopKs}
            \X {EffectiveThreshold(t) : t \in Thresholds}
            \X FilterSets \X BOOLEAN \X Envs |->
        ComputeResponse(x[1], x[2], x[3], x[4], x[5], x[6])] @@ <<>>

\* the steps with the cache written before the results are enriched
MissStepsStoreFirst(user_id, include_metadata) ==
    <<"clean_text", "cache_get">>
        \o (IF user_id # NoUser THEN <<"log_search">> ELSE <<>>)
        \o <<"semantic_search", "keyword_search", "combine_results", "cache_set">>
        \o (IF include_metadata THEN <<"enrich_results">> ELSE <<>>)
        \o <<"determine_search_type">>

\* the steps of a call that misses the cache, from clean_text on, in the
\* order of the awaits of search
MissSteps(user_id, include_metadata) ==
    <<"clean_text", "cache_get">>
        \o (IF user_id # NoUser THEN <<"log_search">> ELSE <<>>)
        \o <<"semantic_search", "keyword_search", "combine_results">>
        \o (IF include_metadata THEN <<"enrich_results">> ELSE <<>>)
        \o <<"determine_search_type", "cache_set">>

\* the admission check made first when a user_id is given
AdmissionFirst(user_id) == user_id # NoUser

\* a denial caught by the generic handler
DenialWrapped == "SearchError"

\* raise RateLimitExceeded, passed on by "except RateLimitExceeded: raise"
DenialRaised == "RateLimitExceeded"

Search(query, user_id, top_k_arg, threshold_arg, filters, include_metadata, envs) ==
    LET checked == AdmissionFirst(user_id)
        rl == is_allowed(WindowOf(<<"search_per_user", user_id>>),
                         configs["search_per_user"], now)
        denied == checked /\ ~rl.allowed
        top_k == EffectiveTopK(top_k_arg)
        threshold == EffectiveThreshold(threshold_arg)
        cleaned_query == clean_text(query)
        empty == Strip(cleaned_query) = <<>>
        cache_key == SearchCacheKey(_generate_cache_key(cleaned_query, filters))
        got == CacheGet(cache, cache_key, now)
        args == [op |-> "search", query |-> query, user_id |-> user_id,
                 top_k |-> top_k, threshold |-> threshold,
                 threshold_arg |-> threshold_arg, filters |-> filters,
                 include_metadata |-> include_metadata]
        pre == IF checked THEN <<"rate_limit">> ELSE <<>>
    IN  /\ IF checked
           THEN CheckLimitEffect("search_per_user", user_id)
           ELSE UNCHANGED <<windows, admitted, rl_last>>
        /\ IF denied
           THEN /\ last' = [args |-> args, outcome |-> DenialRaised,
                            retry_after |-> rl.retry_after,
                            response |-> NoResponse, steps |-> pre, env |-> NoValue]
                /\ UNCHANGED <<cache, history>>
           ELSE IF empty
           THEN /\ last' = [args |-> args, outcome |-> "response",
                            retry_after |-> 0,
                            response |-> [results |-> <<>>, total_results |-> 0,
                                          query |-> query, search_type |-> "empty",
                                          filters_applied |-> <<>>],
                            steps |-> pre \o <<"clean_text">>, env |-> NoValue]
                /\ UNCHANGED <<cache, history>>
           ELSE IF got.found
           THEN /\ last' = [args |-> args, outcome |-> "response",
                            retry_after |-> 0, response |-> got.value,
                            steps |-> pre \o <<"clean_text", "cache_get">>,
                            env |-> NoValue]
                /\ cache' = got.cache
                /\ UNCHANGED history
           ELSE \E env \in envs :
                LET c == Computed[<<cleaned_query, top_k, threshold, filters,
                                    include_metadata, env>>]
                    response == [results |-> c.results,
                                 total_results |-> c.total_results,
                                 query |-> query,
                                 search_type |-> c.search_type,
                                 filters_applied |-> filters]
                IN  /\ last' = [args |-> args, outcome |-> "response",
                                retry_after |-> 0, response |-> response,
                                steps |-> pre \o MissSteps(user_id, include_metadata),
                                env |-> [neighbours |-> env.neighbours,
                                         semantic_fails |-> env.semantic_fails,
                                         keyword_fails |-> env.keyword_fails,
                                         log_fails |-> env.log_fails,
                                         enrich_fails |-> env.enrich_fails,
                                         semantic_n |-> c.semantic_n,
                                         keyword_n |-> c.keyword_n,
                                         fused_n |-> c.fused_n]]
                    /\ cache' = CacheSet(got.cache, cache_key, response,
                                         cache_search_ttl, now)
                    /\ history' = IF user_id # NoUser /\ ~env.log_fails
                                  THEN Append(history, [user_id |-> user_id,
                                                        query |-> query])
                                  ELSE history
        /\ calls' = calls + 1
        /\ UNCHANGED <<now, configs, resetIdx, resets, cset, fvars>>

\* CacheManager.invalidate_document_caches: clear("erpfts:search:*")
ClearSearchCache ==
    /\ cache # <<>>
    /\ cache' = <<>>
    /\ UNCHANGED <<rlvars, history, calls, last, cset, fvars>>

\* the service after construction: empty cache, no history, the search limit
\* read from the settings
Init ==
    /\ now = 0
    /\ \E n \in 1..(MaxCalls - 1) :
           configs = [t \in BuiltinLimits |-> [requests |-> n, window |-> 1]]
    /\ windows = <<>>
    /\ admitted = [k \in Keys |-> <<>>]
    /\ resetIdx = [k \in Keys |-> 0]
    /\ resets = 0
    /\ rl_last = NoCall
    /\ cache = <<>>
    /\ history = <<>>
    /\ cset = <<>>
    /\ calls = 0
    /\ last = NoCall
    /\ fin = NoFusion
    /\ fout = <<>>

\* a series of calls whose collaborators all answer
SearchCalls ==
    /\ calls < MaxCalls
    /\ \E query \in Queries, user_id \in Users, top_k \in TopKs, filters \in FilterSets :
           Search(query, user_id, top_k, NoValue, filters, TRUE,
                  {e \in QuietEnvs : Len(e.neighbours) \in {0, 3}})

\* the clock moves on by one tick between two calls
Tick ==
    /\ now < Slack
    /\ now' = now + 1
    /\ UNCHANGED <<configs, windows, admitted, resetIdx, resets, rl_last, svars, fvars>>

Next == SearchCalls \/ ClearSearchCache \/ Tick
Spec == Init /\ [][Next]_vars

\* one call with every argument and every failure of a collaborator
SearchOnce ==
    /\ calls < 1
    /\ \E query \in Queries, user_id \in Users, top_k \in TopKs,
          threshold \in Thresholds, filters \in FilterSets,
          include_metadata \in BOOLEAN :
           Search(query, user_id, top_k, threshold, filters, include_metadata, Envs)

NextCall == SearchOnce
SpecCall == Init /\ [][NextCall]_vars

\* what a finished call is, read from the record of the last call
Called == last # NoCall
Returned == Called /\ last.outcome = "response"
StepsOf(l) == {l.steps[i] : i \in DOMAIN l.steps}
RetrievalSteps == {"log_search", "semantic_search", "keyword_search",
                   "combine_results", "enrich_results",
                   "determine_search_type", "cache_set"}
IsHit == Returned /\ "cache_get" \in StepsOf(last)
                  /\ StepsOf(last) \cap RetrievalSteps = {}
IsComputed == Returned /\ "semantic_search" \in StepsOf(last)
IsBlank(query) == Strip(clean_text(query)) = <<>>

\* a step of the specification that is a call of search
SearchStep == calls' = calls + 1

\* the entries of the cache under a key that a get at the present time returns
LiveAt(key) ==
    {i \in 1..Len(cache) :
        /\ cache[i].key = key
        /\ (cache[i].expires_at = NoExpiry \/ now <= cache[i].expires_at)}

\* C3: every response search returns, computed or served from the cache, has
\* at most top_k results, top_k being the effective cap of that call.
C3_AtMostTopKResults ==
    Returned => Len(last.response.results) <= last.args.top_k

\* C5: a call with an empty or whitespace-only query returns the "empty"
\* response and leaves the limiter's windows and the cache as they were, so
\* it is never answered with RateLimitExceeded.
C5_EmptyQuerySkipsLimiterAndCache ==
    [][SearchStep /\ IsBlank(last'.args.query) =>
          /\ last'.outcome = "response"
          /\ last'.response.results = <<>>
          /\ last'.response.total_results = 0
          /\ last'.response.search_type = "empty"
          /\ UNCHANGED <<windows, admitted, cache>>]_vars

\* C6: a call whose identity the limiter denies ends in RateLimitExceeded
\* with the limiter's retry_after, and reads or writes neither the cache nor
\* the history and runs no retrieval.
C6_DenialPropagates ==
    [][/\ SearchStep
       /\ last'.args.user_id # NoUser
       /\ ~is_allowed(WindowOf(<<"search_per_user", last'.args.user_id>>),
                      configs["search_per_user"], now).allowed
       => /\ last'.outcome = "RateLimitExceeded"
          /\ last'.retry_after =
                 is_allowed(WindowOf(<<"search_per_user", last'.args.user_id>>),
                            configs["search_per_user"], now).retry_after
          /\ last'.steps = <<"rate_limit">>
          /\ UNCHANGED <<cache, history>>]_vars

\* a denied call of a non-empty query, made while the cache holds an entry
C6_Witness ==
    /\ Called
    /\ last.outcome = "RateLimitExceeded"
    /\ last.retry_after >= 1
    /\ ~IsBlank(last.args.query)
    /\ cache # <<>>

C8_BothPathsFailRaisesSearchError ==
    Called /\ "semantic_search" \in StepsOf(last)
           /\ last.env.semantic_fails /\ last.env.keyword_fails
    => last.outcome = "SearchError"

\* C9: a call that finds a live entry under its key returns that entry's
\* value at once: the history and the cache stay as they were, and no step
\* after the cache probe runs.
C9_HitReturnsCachedAtOnce ==
    [][/\ SearchStep
       /\ last'.outcome = "response"
       /\ ~IsBlank(last'.args.query)
       /\ LiveAt(SearchCacheKey(_generate_cache_key(clean_text(last'.args.query),
                                                    last'.args.filters))) # {}
       => /\ \E i \in LiveAt(SearchCacheKey(
                        _generate_cache_key(clean_text(last'.args.query),
                                            last'.args.filters))) :
                  last'.response = cache[i].value
          /\ StepsOf(last') \cap RetrievalSteps = {}
          /\ UNCHANGED <<cache, history>>]_vars

\* a hit by an identified caller, whose search is not written to the history
C9_Witness ==
    /\ IsHit
    /\ last.args.user_id # NoUser
    /\ history = <<>>
    /\ Len(last.response.results) >= 1

\* the filter set of a filters argument
FilterSet(filters) == {filters[i] : i \in DOMAIN filters}

\* C10: a computed response is stored under the key of its call with the
\* search TTL, and a later call that is not denied, whose query cleans to
\* the same text and whose filters are the same set in any order, made
\* while the entry is in the cache and not expired, returns the stored
\* response without retrieval.
C10_StoredThenHit ==
    [][SearchStep /\ last'.outcome = "response" /\ ~IsBlank(last'.args.query) =>
          /\ "cache_set" \in StepsOf(last') =>
                 \E i \in 1..Len(cache') :
                     /\ cache'[i].value = last'.response
                     /\ cache'[i].expires_at = now + cache_search_ttl * Resolution
                     /\ cache'[i].key[3] = clean_text(last'.args.query)
          /\ \A i \in 1..Len(cache) :
                 /\ cache[i].expires_at = NoExpiry \/ now <= cache[i].expires_at
                 /\ clean_text(cache[i].value.query) = clean_text(last'.args.query)
                 /\ FilterSet(cache[i].value.filters_applied)
                        = FilterSet(last'.args.filters)
                 => /\ last'.response = cache[i].value
                    /\ StepsOf(last') \cap RetrievalSteps = {}
                    /\ history' = history]_vars

\* a hit on an entry stored by a call whose query and filter order differed
C10_Witness ==
    /\ IsHit
    /\ last.args.query # last.response.query
    /\ last.args.filters # <<>>
    /\ last.args.filters # last.response.filters_applied

\* C11: the query field of every response search returns, computed or served
\* from the cache, is the query string passed to that call.
C11_ResponseEchoesQuery ==
    Returned => last.response.query = last.args.query

\* C12: total_results of a computed response is the number of distinct chunk
\* ids fused from the two result lists, counted before the cut to top_k.
C12_TotalCountsFusedCandidates ==
    IsComputed => last.response.total_results = last.env.fused_n

\* the ranking of a result list: chunk, score and tag of each place
Ranking(rs) ==
    [i \in DOMAIN rs |-> <<rs[i].chunk_id, rs[i].combined_score, rs[i].search_type>>]

\* what the last call would have computed had logging and enrichment
\* worked, with include_metadata as given
Recomputed(include_metadata) ==
    Computed[<<clean_text(last.args.query), last.args.top_k, last.args.threshold,
               last.args.filters, include_metadata,
               [neighbours |-> last.env.neighbours,
                semantic_fails |-> last.env.semantic_fails,
                keyword_fails |-> last.env.keyword_fails,
                log_fails |-> FALSE, enrich_fails |-> FALSE]>>]
WithoutFailure == Recomputed(last.args.include_metadata)

Before(a, b) ==
    \E i, j \in DOMAIN last.steps :
        i < j /\ last.steps[i] = a /\ last.steps[j] = b

\* C20: in a call that misses the cache the admission check comes before
\* the cache read, the cache read before both retrievals, the retrievals
\* before fusion, fusion before enrichment and enrichment before the cache
\* write, no step happens twice, and the cache write is the last step: the
\* cache holds the response when the call returns.
C20_StepOrder ==
    IsComputed =>
        /\ \A i, j \in DOMAIN last.steps : i # j => last.steps[i] # last.steps[j]
        /\ last.args.user_id # NoUser <=> "rate_limit" \in StepsOf(last)
        /\ last.args.user_id # NoUser => Before("rate_limit", "cache_get")
        /\ Before("cache_get", "semantic_search")
        /\ Before("cache_get", "keyword_search")
        /\ Before("semantic_search", "combine_results")
        /\ Before("keyword_search", "combine_results")
        /\ last.args.include_metadata <=> "enrich_results" \in StepsOf(last)
        /\ last.args.include_metadata =>
               /\ Before("combine_results", "enrich_results")
               /\ Before("enrich_results", "cache_set")
        /\ Before("combine_results", "cache_set")
        /\ last.steps[Len(last.steps)] = "cache_set"
        /\ \E i \in DOMAIN cache : cache[i].value = last.response

\* a call of an identified caller that missed the cache and ran every step
C20_Witness ==
    /\ IsComputed
    /\ last.args.user_id # NoUser
    /\ last.args.include_metadata
    /\ ~last.env.enrich_fails
    /\ Len(last.response.results) >= 1
    /\ Len(cache) = 1

(***************************************************************************)
(* The in-memory cache backend on its own: set, get, delete, clear and     *)
(* exists called directly, a key being a string of characters.             *)
(***************************************************************************)
MaxCacheOps == 3

AllCacheKeys == << <<"s", "a">>, <<"s", "b">>, <<"m", "a">>, <<"m", "b">> >>
\* one key more than the cache holds
CacheKeys == {AllCacheKeys[i] : i \in 1..(IF cache_max_size + 1 < Len(AllCacheKeys)
                                          THEN cache_max_size + 1
                                          ELSE Len(AllCacheKeys))}
CacheValues == {"v", "w"}
CacheTTLs == {NoTtl, 0, cache_search_ttl}
CachePatterns == {<<"*">>, <<"s", "*">>}

InitCache ==
    /\ now = 0
    /\ configs = [t \in BuiltinLimits |-> [requests |-> 1, window |-> 1]]
    /\ windows = <<>>
    /\ admitted = [k \in Keys |-> <<>>]
    /\ resetIdx = [k \in Keys |-> 0]
    /\ resets = 0
    /\ rl_last = NoCall
    /\ cache = <<>>
    /\ history = <<>>
    /\ cset = <<>>
    /\ calls = 0
    /\ last = NoCall
    /\ fin = NoFusion
    /\ fout = <<>>

\* the part of a backend call that is the same for every method
BackendCall == 
    /\ calls < MaxCacheOps
    /\ calls' = calls + 1
    /\ UNCHANGED <<rlvars, history, fvars>>

BackendSet ==
    \E key \in CacheKeys, value \in CacheValues, ttl \in CacheTTLs :
        /\ BackendCall
        /\ cache' = CacheSet(cache, key, value, ttl, now)
        /\ cset' = (key :> [value |-> value, ttl |-> ttl, t |-> now]) @@ cset
        /\ last' = [args |-> [op |-> "set", key |-> key, value |-> value, ttl |-> ttl],
                    outcome |-> "stored", size_before |-> Len(cache),
                    held |-> EntryIndex(cache, key) # 0]

BackendGet ==
    \E key \in CacheKeys :
        LET got == CacheGet(cache, key, now)
        IN  /\ BackendCall
            /\ cache' = got.cache
            /\ last' = [args |-> [op |-> "get", key |-> key],
                        outcome |-> IF got.found THEN "value" ELSE "absent",
                        value |-> IF got.found THEN got.value ELSE "none",
                        held |-> EntryIndex(cache, key) # 0]
            /\ UNCHANGED cset

BackendDelete ==
    \E key \in CacheKeys :
        LET del == CacheDelete(cache, key)
        IN  /\ BackendCall
            /\ cache' = del.cache
            /\ last' = [args |-> [op |-> "delete", key |-> key],
                        outcome |-> IF del.deleted THEN "deleted" ELSE "missing"]
            /\ UNCHANGED cset

BackendClear ==
    \E pattern \in CachePatterns :
        LET cleared == CacheClear(cache, pattern)
        IN  /\ BackendCall
            /\ cache' = cleared.cache
            /\ last' = [args |-> [op |-> "clear", pattern |-> pattern],
                        outcome |-> "cleared", count |-> cleared.count]
            /\ UNCHANGED cset

\* MemoryCacheBackend.exists: key in self._cache
BackendExists ==
    \E key \in CacheKeys :
        /\ BackendCall
        /\ last' = [args |-> [op |-> "exists", key |-> key],
                    outcome |-> IF EntryIndex(cache, key) # 0 THEN "present"
                                ELSE "not present"]
        /\ UNCHANGED <<cache, cset>>

NextCache == BackendSet \/ BackendGet \/ BackendDelete \/ BackendClear
                 \/ BackendExists \/ Tick
SpecCache == InitCache /\ [][NextCache]_vars

\* a step of the specification that is a call of the backend method op
BackendStep(op) == calls' = calls + 1 /\ last'.args.op = op

\* the keys of the entries stored, and the entries under other keys than key
StoredKeys(c) == {c[i].key : i \in DOMAIN c}
Others(c, key) == SelectSeq(c, LAMBDA e : e.key # key)

\* C16: set stores the value under the key; a get of a key that is still in
\* the store, last set with ttl >= 1, returns that value at any time up to
\* the time of the set plus ttl and leaves the store alone, and at any later
\* time returns absent and removes the entry.
C16_TtlExpiry ==
    [][/\ BackendStep("set") =>
              \E i \in DOMAIN cache' :
                  /\ cache'[i].key = last'.args.key
                  /\ cache'[i].value = last'.args.value
       /\ (/\ BackendStep("get")
           /\ last'.args.key \in StoredKeys(cache)
           /\ cset[last'.args.key].ttl >= 1)
          => LET key == last'.args.key
                 made == cset[key]
             IN  IF now <= made.t + made.ttl * Resolution
                 THEN /\ last'.outcome = "value"
                      /\ last'.value = made.value
                      /\ cache' = cache
                 ELSE /\ last'.outcome = "absent"
                      /\ key \notin StoredKeys(cache')
                      /\ cache' = Others(cache, key)]_vars

\* a get that found its key in the store past its time and removed it
C16_Witness ==
    /\ Called
    /\ last.args.op = "get"
    /\ last.held
    /\ last.outcome = "absent"
    /\ cset[last.args.key].ttl >= 1
    /\ last.args.key \notin StoredKeys(cache)
    /\ cache # <<>>

\* C17: the store never holds more than max_size entries; a set on a store
\* of max_size entries drops the entry first in insertion order and no
\* other, and a get leaves the order of the entries as it was.
C17_CapacityAndFifo ==
    /\ [](Len(cache) <= cache_max_size)
    /\ [][/\ (BackendStep("set") /\ Len(cache) = cache_max_size)
             => LET key == last'.args.key
                IN  /\ key \in StoredKeys(cache')
                    /\ Others(cache', key) = Others(Tail(cache), key)
                    /\ Head(cache).key # key => Head(cache).key \notin StoredKeys(cache')
          /\ (BackendStep("set") /\ Len(cache) < cache_max_size)
             => Others(cache', last'.args.key) = Others(cache, last'.args.key)
          /\ BackendStep("get")
             => Others(cache', last'.args.key) = Others(cache, last'.args.key)]_vars

\* a set of a new key on a full store: the oldest entry made room
C17_Witness ==
    /\ Called
    /\ last.args.op = "set"
    /\ last.size_before = cache_max_size
    /\ ~last.held
    /\ Len(cache) = cache_max_size
    /\ cache[Len(cache)].key = last.args.key

(***************************************************************************)
(* Fusion on its own: _combine_results applied to bounded result lists.    *)
(***************************************************************************)
InitFusion ==
    /\ now = 0
    /\ configs = [t \in BuiltinLimits |-> [requests |-> 1, window |-> 1]]
    /\ windows = <<>>
    /\ admitted = [k \in Keys |-> <<>>]
    /\ resetIdx = [k \in Keys |-> 0]
    /\ resets = 0
    /\ rl_last = NoCall
    /\ cache = <<>>
    /\ history = <<>>
    /\ cset = <<>>
    /\ calls = 0
    /\ last = NoCall
    /\ \E sem \in ResultLists("semantic", {<<>>}),
          kw \in ResultLists("keyword", {<<>>, <<<<0, 2>>>>}),
          k \in 1..MaxTopK :
           fin = [op |-> "call", semantic_results |-> sem,
                  keyword_results |-> kw, top_k |-> k]
    /\ fout = <<>>

CombineResults ==
    /\ fin.op = "call"
    /\ fout' = _combine_results(fin.semantic_results, fin.keyword_results, fin.top_k)
    /\ fin' = [fin EXCEPT !.op = "returned"]
    /\ UNCHANGED <<rlvars, svars>>

NextFusion == CombineResults
SpecFusion == InitFusion /\ [][NextFusion]_vars

\* C4: the list fusion returns is in descending combined_score, and results
\* of equal combined_score are in ascending chunk id.
C4_SortedByScoreThenChunkId ==
    fin.op = "returned" =>
        \A i \in 1..(Len(fout) - 1) :
            \/ fout[i].combined_score > fout[i + 1].combined_score
            \/ /\ fout[i].combined_score = fout[i + 1].combined_score
               /\ fout[i].chunk_id < fout[i + 1].chunk_id

\* the chunk ids of a result list, and the result of a list for a chunk id
IdsOf(rs) == {rs[i].chunk_id : i \in DOMAIN rs}
EntryOf(rs, id) == rs[CHOOSE i \in DOMAIN rs : rs[i].chunk_id = id]

\* the positions a list of spans covers, a span covering start..end
Covered(spans) == UNION {spans[i][1]..spans[i][2] : i \in DOMAIN spans}

MaxPos == 3
MaxSpans == 3

Spans == {p \in (0..MaxPos) \X (0..MaxPos) : p[1] <= p[2]}
SpanLists == UNION {[1..n -> Spans] : n \in 0..MaxSpans}
\* the list of test_merge_positions_handles_overlapping_highlights
TestedPositions == << <<0, 5>>, <<3, 8>>, <<10, 15>>, <<12, 18>> >>

InitMerge ==
    /\ now = 0
    /\ configs = [t \in BuiltinLimits |-> [requests |-> 1, window |-> 1]]
    /\ windows = <<>>
    /\ admitted = [k \in Keys |-> <<>>]
    /\ resetIdx = [k \in Keys |-> 0]
    /\ resets = 0
    /\ rl_last = NoCall
    /\ cache = <<>>
    /\ history = <<>>
    /\ cset = <<>>
    /\ calls = 0
    /\ last = NoCall
    /\ \E ps \in SpanLists \cup {TestedPositions} :
           fin = [op |-> "call", positions |-> ps, merged |-> <<>>]
    /\ fout = <<>>

\* _merge_positions(positions)
MergePositions ==
    /\ fin.op = "call"
    /\ fout' = _merge_positions(fin.positions)
    /\ fin' = [fin EXCEPT !.op = "merged"]
    /\ UNCHANGED <<rlvars, svars>>

\* _merge_positions applied to what it returned
MergeAgain ==
    /\ fin.op = "merged"
    /\ fout' = _merge_positions(fout)
    /\ fin' = [fin EXCEPT !.op = "merged again", !.merged = fout]
    /\ UNCHANGED <<rlvars, svars>>

\* the sort and merge loop of _find_keyword_positions on the same spans
MergeInline ==
    /\ fin.op = "call"
    /\ fout' = SortAndMerge(fin.positions)
    /\ fin' = [fin EXCEPT !.op = "merged inline"]
    /\ UNCHANGED <<rlvars, svars>>

NextMerge == MergePositions \/ MergeAgain \/ MergeInline
SpecMerge == InitMerge /\ [][NextMerge]_vars

\* C18: what _merge_positions returns is sorted, every span starting
\* strictly after the previous one ends, and covers the positions its input
\* covers; merging it again returns it unchanged; the tested list merges to
\* [(0, 8), (10, 18)]; and the loop of _find_keyword_positions returns the
\* same list for the same spans.
C18_MergePositions ==
    /\ fin.op = "merged" =>
           /\ \A i \in DOMAIN fout : fout[i][1] <= fout[i][2]
           /\ \A i \in 1..(Len(fout) - 1) : fout[i + 1][1] > fout[i][2]
           /\ Covered(fout) = Covered(fin.positions)
           /\ fin.positions # <<>> => fout # <<>>
           /\ fin.positions = TestedPositions => fout = << <<0, 8>>, <<10, 18>> >>
    /\ fin.op = "merged again" => fout = fin.merged
    /\ fin.op = "merged inline" => fout = _merge_positions(fin.positions)

\* the tested list, merged to two spans and merged again
C18_Witness ==
    /\ fin.op = "merged again"
    /\ fin.positions = TestedPositions
    /\ fout = << <<0, 8>>, <<10, 18>> >>

(***************************************************************************)
(* RateLimiter: the table of configurations.  A limit name is a string;    *)
(* NameParts splits each name used after its first underscore, so that     *)
(* str.startswith can be computed on it.                                   *)
(***************************************************************************)
MaxConfigOps == 3
CustomNames == {"custom", "api_custom"}
LimitNames == BuiltinLimits \cup CustomNames
\* the names add_custom_limit, remove_custom_limit and check_limit are called with
CalledNames == {"search_per_user"} \cup CustomNames
CustomConfigs == {[requests |-> 1, window |-> 1], [requests |-> 2, window |-> 2]}

NameParts ==
    [n \in LimitNames |->
        CASE n = "search_per_user" -> <<"search_", "per_user">>
          [] n = "upload_per_user" -> <<"upload_", "per_user">>
          [] n = "api_per_ip" -> <<"api_", "per_ip">>
          [] n = "global_api" -> <<"global_", "api">>
          [] n = "api_custom" -> <<"api_", "custom">>
          [] n = "custom" -> <<"custom", "">>]

\* name.startswith(("search_", "upload_", "api_", "global_"))
StartsWithProtected(name) ==
    NameParts[name][1] \in {"search_", "upload_", "api_", "global_"}

\* RateLimiter.add_custom_limit
AddCustomLimit(name, config) ==
    /\ resets < MaxConfigOps
    /\ resets' = resets + 1
    /\ configs' = (name :> config) @@ configs
    /\ rl_last' = [op |-> "add_custom_limit", name |-> name, time |-> now]
    /\ UNCHANGED <<now, windows, admitted, resetIdx, svars, fvars>>

\* RateLimiter.remove_custom_limit
RemoveCustomLimit(name) ==
    /\ resets < MaxConfigOps
    /\ resets' = resets + 1
    /\ IF name \in DOMAIN configs /\ ~StartsWithProtected(name)
       THEN /\ configs' = [n \in DOMAIN configs \ {name} |-> configs[n]]
            /\ rl_last' = [op |-> "remove_custom_limit", name |-> name,
                            time |-> now, result |-> TRUE]
       ELSE /\ configs' = configs
            /\ rl_last' = [op |-> "remove_custom_limit", name |-> name,
                            time |-> now, result |-> FALSE]
    /\ UNCHANGED <<now, windows, admitted, resetIdx, svars, fvars>>

\* RateLimiter() as constructed, the four default limits configured
InitConfigs ==
    /\ now = 0
    /\ \E c \in CustomConfigs : configs = [t \in BuiltinLimits |-> c]
    /\ windows = <<>>
    /\ admitted = [k \in LimitNames \X Identifiers |-> <<>>]
    /\ resetIdx = [k \in LimitNames \X Identifiers |-> 0]
    /\ resets = 0
    /\ rl_last = NoCall
    /\ cache = <<>>
    /\ history = <<>>
    /\ cset = <<>>
    /\ calls = 0
    /\ last = NoCall
    /\ fin = NoFusion
    /\ fout = <<>>

AddLimit == \E name \in CalledNames, c \in CustomConfigs : AddCustomLimit(name, c)
RemoveLimit == \E name \in CalledNames : RemoveCustomLimit(name)
CheckAnyLimit == \E name \in CalledNames, id \in Identifiers : CheckLimit(name, id)

NextConfigs == AddLimit \/ RemoveLimit \/ CheckAnyLimit
SpecConfigs == InitConfigs /\ [][NextConfigs]_vars

\* C21: check_limit for a limit type that has no registered configuration
\* returns allowed = true and neither creates nor modifies any rate limit
\* window.
C21_UnconfiguredLimitFailsOpen ==
    [][(/\ rl_last'.op = "check_limit"
        /\ rl_last'.time = now
        /\ configs' = configs
        /\ rl_last'.key[1] \notin DOMAIN configs)
       => /\ rl_last'.allowed
          /\ windows' = windows]_vars

\* a limit that was configured, used and removed is checked again: the check
\* is let through and the key's window is still there
C21_Witness ==
    /\ rl_last.op = "check_limit"
    /\ rl_last.key[1] \notin DOMAIN configs
    /\ rl_last.allowed
    /\ rl_last.key \in DOMAIN windows
    /\ windows[rl_last.key] # <<>>

\* C22 as stated: remove_custom_limit(name) returns true exactly when name is
\* a registered limit other than the four built-in names, the configuration
\* is then gone, and the four built-in limits stay configured throughout.
C22_RemovesExactlyNonBuiltins ==
    [][(rl_last'.op = "remove_custom_limit" /\ resets' # resets)
       => LET name == rl_last'.name
          IN  /\ rl_last'.result = (name \in DOMAIN configs /\ name \notin BuiltinLimits)
              /\ rl_last'.result => name \notin DOMAIN configs'
              /\ BuiltinLimits \subseteq DOMAIN configs']_vars

\* C23 as stated: when the caller supplies a threshold t in 0.0..1.0 the
\* semantic path keeps exactly the fetched neighbours whose similarity is at
\* least t (t tenths here); the default threshold is used only when the
\* caller supplies none.
C23_SuppliedThresholdIsUsed ==
    (IsComputed /\ ~last.env.semantic_fails /\ last.args.threshold_arg # NoValue)
        => /\ last.args.threshold = last.args.threshold_arg
           /\ last.env.semantic_n =
                  Len(_semantic_search(last.env.neighbours, last.args.top_k,
                                       last.args.threshold_arg, last.args.filters))

\* the values the clock takes
ClockTimes == {t \in 0..MaxTime : t % Jump <= Slack}

\* the accepted checks in acc that are no older than one window at time t
InWindow(acc, t) == SelectSeq(acc, LAMBDA a : a >= t - WindowTicks)

\* C24: a check denied at time `now` on a key whose oldest stored timestamp
\* is t0 reports retry_after = floor(t0 + window - now) + 1 >= 1 seconds and
\* reset_time = now + retry_after; and, for a limit of at least one request,
\* a check made retry_after seconds after a time d at which the key's window
\* was full, with no accepted check since d, is allowed.  The stored window
\* of a denial is the accepted checks still in the window, so every denial
\* made is one of the times d.
C24_RetryAfterAndReset ==
    [][(now' = now /\ rl_last'.op = "check_limit") =>
          LET k == rl_last'.key
              acc == admitted[k]
          IN  /\ (~rl_last'.allowed /\ windows'[k] # <<>>) =>
                     LET t0 == windows'[k][1]
                     IN  /\ windows'[k] = InWindow(acc, now)
                         /\ rl_last'.retry_after =
                                ((t0 + WindowTicks - now) \div Resolution) + 1
                         /\ rl_last'.retry_after >= 1
                         /\ rl_last'.reset_time =
                                now + rl_last'.retry_after * Resolution
              /\ (/\ Requests >= 1
                  /\ \E d \in ClockTimes :
                         /\ d <= now
                         /\ acc # <<>>
                         /\ acc[Len(acc)] <= d
                         /\ Len(InWindow(acc, d)) >= Requests
                         /\ now = d + Resolution *
                                (((InWindow(acc, d)[1] + WindowTicks - d)
                                      \div Resolution) + 1))
                 => rl_last'.allowed
              /\ (Requests >= 1 /\ now \in rl_last'.follows) => rl_last'.allowed]_vars

\* a check was denied with a retry_after, and the next check of the key, made
\* retry_after seconds after the denial, has been accepted
C24_Witness ==
    /\ Requests >= 1
    /\ rl_last.op = "check_limit"
    /\ rl_last.allowed
    /\ rl_last.time = now
    /\ now \in rl_last.follows
    /\ LET acc == admitted[rl_last.key]
           before == SubSeq(acc, 1, Len(acc) - 1)
       IN  /\ Len(acc) > Requests
           /\ \E d \in ClockTimes :
                  /\ before[Len(before)] <= d
                  /\ d < now
                  /\ Len(InWindow(before, d)) >= Requests
                  /\ now = d + Resolution *
                         (((InWindow(before, d)[1] + WindowTicks - d)
                               \div Resolution) + 1)

(***************************************************************************)
(* SearchService._keyword_search on its own, over every query of up to     *)
(* MaxQueryLen characters.                                                 *)
(***************************************************************************)
MaxQueryLen == 5
QueryChars == {"a", "b", " "}

RECURSIVE QueriesUpTo(_)
QueriesUpTo(n) ==
    IF n = 0 THEN {<<>>}
    ELSE LET shorter == QueriesUpTo(n - 1)
         IN  shorter \cup {Append(q, c) : q \in shorter, c \in QueryChars}

InitKeyword ==
    /\ now = 0
    /\ configs = [t \in BuiltinLimits |-> [requests |-> 1, window |-> 1]]
    /\ windows = <<>>
    /\ admitted = [k \in Keys |-> <<>>]
    /\ resetIdx = [k \in Keys |-> 0]
    /\ resets = 0
    /\ rl_last = NoCall
    /\ cache = <<>>
    /\ history = <<>>
    /\ cset = <<>>
    /\ calls = 0
    /\ last = NoCall
    /\ \E query \in QueriesUpTo(MaxQueryLen), top_k \in 1..MaxChunks,
          filters \in FilterSets :
           fin = [op |-> "keyword_call", query |-> query, top_k |-> top_k,
                  filters |-> filters]
    /\ fout = <<>>

\* one call of _keyword_search
KeywordSearch ==
    /\ fin.op = "keyword_call"
    /\ fout' = _keyword_search(fin.query, fin.top_k, fin.filters)
    /\ fin' = [fin EXCEPT !.op = "keyword_search"]
    /\ UNCHANGED <<rlvars, svars>>

NextKeyword == KeywordSearch
SpecKeyword == InitKeyword /\ [][NextKeyword]_vars

\* the distinct keywords of a query
DistinctKeywords(query) ==
    LET keywords == Split(Lower(query)) IN {keywords[i] : i \in 1..Len(keywords)}

\* C25 as stated: the score of a keyword result is the number of distinct
\* query keywords that occur in the chunk's content, case-insensitively,
\* divided by the number of distinct query keywords, so that repeating a word
\* in the query changes no score.
C25_ScoreOverDistinctKeywords ==
    (fin.op = "keyword_search" /\ DistinctKeywords(fin.query) # {}) =>
        \A i \in 1..Len(fout) :
            LET distinct == DistinctKeywords(fin.query)
                found == {k \in distinct :
                             Contains(Lower(Chunks[fout[i].chunk_id].content), k)}
            IN  fout[i].similarity_score * Cardinality(distinct)
                    = Cardinality(found) * ScoreScale

C27_NumericTtlAlwaysExpires ==
    [][(BackendStep("get") /\ last'.args.key \in StoredKeys(cache))
       => LET made == cset[last'.args.key]
          IN  /\ made.ttl = NoTtl => last'.outcome = "value"
              /\ (made.ttl # NoTtl /\ now > made.t + made.ttl * Resolution)
                 => last'.outcome = "absent"]_vars

\* C28 as stated: exists(key) answers as get(key) would at that moment:
\* present only if a get would return a value, so not present for an entry
\* whose time is past and that no get has removed yet.
C28_ExistsAgreesWithGet ==
    [][BackendStep("exists")
       => (last'.outcome = "present")
              = CacheGet(cache, last'.args.key, now).found]_vars

\* C30 as stated: a set on a key that is already in the store replaces that
\* key's entry only: every other key stored before the call is stored after
\* it with the same value, also when the store holds max_size entries.
C30_OverwriteKeepsOtherKeys ==
    [][(BackendStep("set") /\ last'.args.key \in StoredKeys(cache))
       => \A i \in DOMAIN cache :
              cache[i].key # last'.args.key
                  => \E j \in DOMAIN cache' :
                         /\ cache'[j].key = cache[i].key
                         /\ cache'[j].value = cache[i].value]_vars

\* the accepted checks of key k since its last reset that a check at time t
\* finds in the window when nothing but checks, usage reads and resets have
\* touched it
UnsweptCount(k, t) ==
    Cardinality({j \in (resetIdx[k] + 1)..Len(admitted[k]) :
                    admitted[k][j] >= t - WindowTicks})

\* C29 as stated: for every configured (requests, window) a check returns
\* the allowed / denied result and the current_count it would return had
\* cleanup_expired never run.
C29_SweepNeverChangesDecision ==
    rl_last.op = "check_limit" =>
        LET unswept == UnsweptCount(rl_last.key, rl_last.time)
            before == IF rl_last.allowed THEN unswept - 1 ELSE unswept
        IN  /\ rl_last.current_count = unswept
            /\ rl_last.allowed = (before < Requests)

====
